---- MODULE Spec2Model ----
(***************************************************************************)
(* One server session of the Hrana websocket protocol, as implemented by   *)
(* handle_socket in libsql-server/scripts/hrana_server.py ("hrana") and in *)
(* libsql-server/packages/js/hrana-client/test_server.py ("test").         *)
(*                                                                         *)
(* A step of the model is one run of the session coroutine between two     *)
(* awaits: the arrival of a frame with the synchronous part of its         *)
(* handler, the acquisition of a stream's lock, or the completion of an    *)
(* operation offloaded with asyncio.to_thread.  The client is the          *)
(* environment: it chooses the frames and may close the transport.         *)
(***************************************************************************)
EXTENDS Integers, Sequences, FiniteSets

\* Request frames a client sends after the handshake.
MaxRequests == 3
\* Stream ids are 1..MaxStreamId.
MaxStreamId == 2
\* Integers have IntBits bits, two's complement: the range the codec is
\* checked on, scaled down from SQLite's 64 bits.
IntBits == 10
\* Blobs have up to MaxBlobLen bytes.
MaxBlobLen == 4
\* A cursor yields up to MaxRows rows.
MaxRows == 2
\* Requests that two concurrent sessions handle between them.
MaxSessionRequests == 4
\* A mapping of named parameters has up to MaxParams keys.
MaxParams == 2
\* Client.batch and Client.transaction are given up to MaxBatch statements.
MaxBatch == 2
\* Each of the concurrent batch calls on one SQLite driver has up to
\* MaxDriverStmts statements.
MaxDriverStmts == 2
\* One HTTP driver has up to MaxHttpCalls concurrent batch calls.
MaxHttpCalls == 2

VARIABLES
    variant,    \* which server runs: "hrana" or "test"
    pc,         \* position of handle_socket
    exc,        \* how handle_socket ended: "none", "return" or the exception
    transport,  \* the websocket: "open" or "closed"
    frames,     \* the frames recv_msg has returned, in order
    tasks,      \* one handle_request call per request frame, in receipt order
    streams,    \* the dict streams: stream id -> index into conns
    conns,      \* every sqlite3 connection the session has acquired
    sent,       \* the frames send_msg has sent, in order
    db_file,    \* test variant: the session's temporary database file
    \* One value taken through the value codec
    cv_flow,    \* "result": a column value sent to the client; "arg": an argument received
    cv_in,      \* the Python value the codec starts from
    cv_wire,    \* the dict in the frame
    cv_out,     \* what value_to_sqlite returns
    cv_pc,      \* position in the flow
    \* One call of execute_stmt
    x_cursor,   \* what conn.execute returned: description, rows, rowcount
    x_want,     \* stmt["want_rows"]
    x_cols,     \* the list cols
    x_pos,      \* the rows the for loop has taken from the cursor
    x_rows,     \* the list rows
    x_result,   \* the dict returned
    x_pc,       \* position in execute_stmt
    \* Two concurrent sessions of one server
    g_streams,  \* the dict streams of each handle_socket call
    g_conns,    \* every sqlite3 connection the server has made
    g_pc,       \* each session: "off", "open" or "done"
    g_req,      \* the request handled last, and how many were handled
    \* The parameters of one statement in _batch of the SQLite driver
    q_params,   \* stmt.params: a list, or the items of a dict in its order
    q_pos,      \* the items the for loop has taken
    q_sql_params, \* the dict or list handed to conn.execute
    q_pc,       \* "loop", "execute", "executed" or "raised"
    \* One call of Client.batch or Client.transaction on a file-URL client
    b_call,     \* "batch" or "transaction"
    b_stmts,    \* the argument stmts
    b_raw,      \* the list of _RawStmt handed to the driver
    b_txn,      \* the connection has a transaction open
    b_log,      \* the statements the connection has run, in order
    b_results,  \* the list result_sets of _batch
    b_ret,      \* what the call returned or raised
    b_pc,       \* position of the call
    \* Concurrent batch calls and a close() on one _SqliteDriver
    d_lock,     \* _conn_lock: 0 when free, else the call that holds it
    d_conn,     \* _conn: whether it is open and has a transaction open
    d_calls,    \* each batch call: its stmts, position, result_sets and outcome
    d_log,      \* the statements the connection was given, in order
    d_close,    \* close(): "idle", "closed", or "off" when it is never called
    \* Concurrent batch calls on one _HttpDriver
    h_version,  \* _version: None or the cached tuple
    h_calls,    \* each batch call: its position, local version and outcome
    h_fetches,  \* the responses _get_version got a version from, in order
    h_posts     \* the calls that posted their statements, in order

session == <<variant, pc, exc, transport, frames, tasks, streams, conns, sent, db_file>>
codec == <<cv_flow, cv_in, cv_wire, cv_out, cv_pc>>
exec == <<x_cursor, x_want, x_cols, x_pos, x_rows, x_result, x_pc>>
sessions == <<g_streams, g_conns, g_pc, g_req>>
params == <<q_params, q_pos, q_sql_params, q_pc>>
batch == <<b_call, b_stmts, b_raw, b_txn, b_log, b_results, b_ret, b_pc>>
driver == <<d_lock, d_conn, d_calls, d_log, d_close>>
version == <<h_version, h_calls, h_fetches, h_posts>>
\* the variables of concurrent calls on one driver
concurrent == <<driver, version>>
\* the variables of the client library
client == <<params, batch, concurrent>>
not_driver == <<session, codec, exec, sessions, params, batch, version>>
not_version == <<session, codec, exec, sessions, params, batch, driver>>
\* the variables the session leaves alone
aside == <<codec, exec, sessions, client>>
\* the variables the codec and execute_stmt leave alone
not_codec == <<session, exec, sessions, client>>
not_exec == <<session, codec, sessions, client>>
not_sessions == <<pc, exc, transport, frames, tasks, streams, conns, sent, db_file,
                  codec, exec, client>>
\* the variables the client library leaves alone
server == <<session, codec, exec, sessions>>
vars == <<session, aside>>

Variants == {"hrana", "test"}
StreamIds == 1..MaxStreamId
\* The request ids the client draws from: two, so that an id can be fresh or reused.
RequestIds == {0, 1}

----------------------------------------------------------------------------
\* Helpers over the history

\* Number of request frames received with request id r.
Received(r) == Cardinality({i \in DOMAIN tasks : tasks[i].request_id = r})

IsResponse(m) == m.type \in {"response_ok", "response_error"}

\* Number of response frames sent with request id r.
Answered(r) ==
    Cardinality({j \in DOMAIN sent : IsResponse(sent[j]) /\ sent[j].request_id = r})

\* request ids received and not yet answered
Pending == {r \in RequestIds : Received(r) > Answered(r)}

Registered(c) == \E s \in DOMAIN streams : streams[s] = c

----------------------------------------------------------------------------
\* Python values: None, int, float, str (a sequence of character codes) and
\* bytes (a sequence of byte values).  A float is held as a number of halves.

None == [py |-> "None"]
PyInt(n) == [py |-> "int", v |-> n]
PyFloat(h) == [py |-> "float", v |-> h]
PyStr(cs) == [py |-> "str", v |-> cs]
PyBytes(bs) == [py |-> "bytes", v |-> bs]
Raise(e) == [py |-> "raise", v |-> e]
PyTuple(xs) == [py |-> "tuple", v |-> xs]
PyList(xs) == [py |-> "list", v |-> xs]
\* a dict, held as the sequence of its items <<key, value>> in its order
PyDict(items) == [py |-> "dict", v |-> items]

IsRaise(x) == x.py = "raise"

SameValue(a, b) ==
    /\ a.py = b.py
    /\ a.py \in {"int", "float", "str", "bytes"} => a.v = b.v

MinInt == 0 - 2 ^ (IntBits - 1)
MaxInt == 2 ^ (IntBits - 1) - 1

IsDigit(ch) == ch \in 48..57

RECURSIVE Digits(_)
\* the decimal digits of n >= 0, as character codes
Digits(n) == IF n < 10 THEN <<48 + n>> ELSE Digits(n \div 10) \o <<48 + (n % 10)>>

\* str(n) that forgets the sign
str_int_unsigned(n) == Digits(IF n < 0 THEN 0 - n ELSE n)

\* str(n) of an int
str_int(n) == IF n < 0 THEN <<45>> \o Digits(0 - n) ELSE Digits(n)

RECURSIVE DigitsValue(_)
DigitsValue(cs) ==
    IF cs = <<>> THEN 0
    ELSE 10 * DigitsValue(SubSeq(cs, 1, Len(cs) - 1)) + (cs[Len(cs)] - 48)

\* int(s) of a str: an optional sign and at least one digit
int_str(cs) ==
    LET signed == cs # <<>> /\ cs[1] \in {43, 45}
        ds == IF signed THEN Tail(cs) ELSE cs
    IN IF ds = <<>> \/ \E k \in DOMAIN ds : ~IsDigit(ds[k])
       THEN Raise("ValueError")
       ELSE PyInt(IF signed /\ cs[1] = 45 THEN 0 - DigitsValue(ds) ELSE DigitsValue(ds))

\* int(x)
int(x) ==
    CASE x.py = "str" -> int_str(x.v)
      [] x.py = "int" -> x
      [] x.py = "float" -> PyInt(IF x.v < 0 THEN 0 - ((0 - x.v) \div 2) ELSE x.v \div 2)
      [] OTHER -> Raise("TypeError")

\* float(x)
float(x) ==
    CASE x.py = "float" -> x
      [] x.py = "int" -> PyFloat(2 * x.v)
      [] x.py = "str" -> IF IsRaise(int_str(x.v)) THEN Raise("ValueError")
                         ELSE PyFloat(2 * int_str(x.v).v)
      [] OTHER -> Raise("TypeError")

\* str(x), for the values a JSON frame can hold
str(x) ==
    CASE x.py = "str" -> x
      [] x.py = "int" -> PyStr(str_int(x.v))
      [] x.py = "None" -> PyStr(<<78, 111, 110, 101>>)
      [] OTHER -> PyStr(<<63>>)

\* the base64 alphabet: A-Z a-z 0-9 + /
B64Char(k) ==
    IF k < 26 THEN 65 + k
    ELSE IF k < 52 THEN 97 + (k - 26)
    ELSE IF k < 62 THEN 48 + (k - 52)
    ELSE IF k = 62 THEN 43 ELSE 47

IsB64Char(ch) == ch \in (65..90) \cup (97..122) \cup (48..57) \cup {43, 47}

B64Val(ch) ==
    IF ch \in 65..90 THEN ch - 65
    ELSE IF ch \in 97..122 THEN ch - 97 + 26
    ELSE IF ch \in 48..57 THEN ch - 48 + 52
    ELSE IF ch = 43 THEN 62 ELSE 63

Pad == 61

RECURSIVE b64encode(_)
\* base64.b64encode: the ASCII text, padded with "=" to a multiple of four
b64encode(bs) ==
    IF bs = <<>> THEN <<>>
    ELSE IF Len(bs) = 1 THEN
        <<B64Char(bs[1] \div 4), B64Char((bs[1] % 4) * 16), Pad, Pad>>
    ELSE IF Len(bs) = 2 THEN
        <<B64Char(bs[1] \div 4),
          B64Char((bs[1] % 4) * 16 + bs[2] \div 16),
          B64Char((bs[2] % 16) * 4), Pad>>
    ELSE
        <<B64Char(bs[1] \div 4),
          B64Char((bs[1] % 4) * 16 + bs[2] \div 16),
          B64Char((bs[2] % 16) * 4 + bs[3] \div 64),
          B64Char(bs[3] % 64)>> \o b64encode(SubSeq(bs, 4, Len(bs)))

\* bytes.strip(b"="), on text that has "=" only at its end
strip_pad(cs) == SelectSeq(cs, LAMBDA ch : ch # Pad)

RECURSIVE DecodeQuads(_)
\* the bytes of base64 data characters; a last group of 2 or 3 gives 1 or 2
DecodeQuads(ds) ==
    IF Len(ds) < 2 THEN <<>>
    ELSE LET a == B64Val(ds[1])
             b == B64Val(ds[2])
             b1 == a * 4 + b \div 16
         IN IF Len(ds) = 2 THEN <<b1>>
            ELSE LET c == B64Val(ds[3])
                     b2 == (b % 16) * 16 + c \div 4
                 IN IF Len(ds) = 3 THEN <<b1, b2>>
                    ELSE <<b1, b2, (c % 4) * 64 + B64Val(ds[4])>>
                         \o DecodeQuads(SubSeq(ds, 5, Len(ds)))

RECURSIVE PrefixLen(_, _)
\* the length of the longest prefix of cs made of "=" (isPad) or free of it
PrefixLen(cs, isPad) ==
    IF cs = <<>> \/ ((cs[1] = Pad) # isPad) THEN 0
    ELSE 1 + PrefixLen(Tail(cs), isPad)

\* base64.b64decode (validate=False): characters outside the alphabet are
\* dropped, and a last group of 2 or 3 characters needs its "=" padding
b64decode(cs) ==
    LET clean == SelectSeq(cs, LAMBDA ch : IsB64Char(ch) \/ ch = Pad)
        d == PrefixLen(clean, FALSE)
        pads == PrefixLen(SubSeq(clean, d + 1, Len(clean)), TRUE)
        data == SubSeq(clean, 1, d)
    IN IF d % 4 = 1 THEN Raise("binascii.Error")
       ELSE IF d % 4 = 2 /\ pads < 2 THEN Raise("binascii.Error")
       ELSE IF d % 4 = 3 /\ pads < 1 THEN Raise("binascii.Error")
       ELSE PyBytes(DecodeQuads(data))

\* value_from_sqlite: the dict sent for a column value
value_from_sqlite(value) ==
    CASE value.py = "None" -> [type |-> "null"]
      [] value.py = "int" -> [type |-> "integer", value |-> PyStr(str_int(value.v))]
      [] value.py = "float" -> [type |-> "float", value |-> value]
      [] value.py = "str" -> [type |-> "text", value |-> value]
      [] value.py = "bytes" -> [type |-> "blob", value |-> PyBytes(b64encode(value.v))]

\* value["key"], a KeyError when the dict has no such key
Item(value, key) ==
    IF key \in DOMAIN value THEN value[key] ELSE Raise("KeyError")

\* value_to_sqlite: the Python value bound for an argument, or the exception
value_to_sqlite(value) ==
    IF "type" \notin DOMAIN value THEN Raise("KeyError")
    ELSE CASE value.type = "null" -> None
           [] value.type = "integer" ->
                IF IsRaise(Item(value, "value")) THEN Item(value, "value")
                ELSE int(value.value)
           [] value.type = "float" ->
                IF IsRaise(Item(value, "value")) THEN Item(value, "value")
                ELSE float(value.value)
           [] value.type = "text" ->
                IF IsRaise(Item(value, "value")) THEN Item(value, "value")
                ELSE str(value.value)
           [] value.type = "blob" ->
                IF IsRaise(Item(value, "base64")) THEN Item(value, "base64")
                ELSE IF value.base64.py \in {"str", "bytes"} THEN b64decode(value.base64.v)
                ELSE Raise("TypeError")
           [] OTHER -> Raise("RuntimeError")

\* json.dumps of a frame holding the dict d: bytes are not JSON serializable
json_serializable(d) == \A k \in DOMAIN d \ {"type"} : d[k].py # "bytes"

\* json.loads of the text json.dumps made of d: str, numbers and null come
\* back as they were
json_wire(d) == d

----------------------------------------------------------------------------
\* What the SQL engine makes of a statement: a query has output columns, a
\* data-modification statement has none unless it ends in RETURNING, an
\* invalid statement is rejected.
SqlKinds == {"select", "insert", "insert_returning", "invalid"}

\* dicts that are no value: an unknown tag, a payload that is no number, a
\* missing payload
MalformedValues ==
    {[type |-> "bogus"],
     [type |-> "integer", value |-> PyStr(<<120>>)],
     [type |-> "blob"]}

\* The statements of the session: without arguments, or an INSERT with one
\* argument that is no value.
Stmts ==
    [sql : SqlKinds, args : {<<>>}]
    \cup [sql : {"insert"}, args : {<<v>> : v \in MalformedValues}]

NoStmt == [sql |-> "none", args |-> <<>>]

Requests ==
    [type : {"open_stream", "close_stream"}, stream_id : StreamIds, stmt : {NoStmt}]
    \cup [type : {"execute"}, stream_id : StreamIds, stmt : Stmts]
    \cup [type : {"describe"}, stream_id : {1}, stmt : {NoStmt}]

HelloFrame == [type |-> "hello"]
RequestFrames == [type : {"request"}, request_id : RequestIds, request : Requests]
\* "malformed" stands for a text frame json.loads rejects.
OtherFrames == {[type |-> "malformed"], [type |-> "junk"]}
Frames == {HelloFrame} \cup OtherFrames \cup RequestFrames

----------------------------------------------------------------------------
\* value of cursor.description after conn.execute
description(stmt) ==
    IF stmt.sql \in {"select", "insert_returning"} THEN "columns" ELSE "None"

\* params = [value_to_sqlite(arg) for arg in stmt["args"]]: the exception
\* of the first argument that has one, or "ok"
params_error(stmt) ==
    LET bad == {k \in DOMAIN stmt.args : IsRaise(value_to_sqlite(stmt.args[k]))}
    IN IF bad = {} THEN "ok"
       ELSE value_to_sqlite(stmt.args[CHOOSE k \in bad : \A j \in bad : k <= j]).v

IsDML(stmt) == stmt.sql \in {"insert", "insert_returning"}

\* sqlite3.connect: the test server passes isolation_level=None, the hrana
\* server leaves the default, under which the module opens a transaction
\* before a data-modification statement and leaves it open
isolation_level == IF variant = "test" THEN "None" ELSE ""

\* another connection holds the database's write lock
Locked(cs, c) ==
    \E d \in DOMAIN cs : d # c /\ cs[d].state = "open" /\ cs[d].in_txn

\* conn.execute(sql, params): the exception of the engine, or "ok"
conn_execute(cs, c, stmt) ==
    IF stmt.sql = "invalid" THEN "OperationalError"
    ELSE IF IsDML(stmt) /\ Locked(cs, c) THEN "OperationalError"
    ELSE "ok"

\* execute_stmt on connection c: the exception it raises, or "ok"
execute_stmt(cs, c, stmt) ==
    IF params_error(stmt) # "ok" THEN params_error(stmt)
    ELSE IF conn_execute(cs, c, stmt) # "ok" THEN conn_execute(cs, c, stmt)
    ELSE IF variant = "hrana" /\ description(stmt) = "None" THEN "TypeError"
    ELSE "ok"

\* the connections after execute_stmt on c: the statement has been handed to
\* the engine unless an argument failed, and a data-modification statement
\* has left a transaction open unless the connection is in autocommit mode
AfterExecute(cs, c, stmt) ==
    IF params_error(stmt) # "ok" THEN cs
    ELSE [cs EXCEPT ![c].runs = @ + 1,
                    ![c].in_txn = \/ @
                                  \/ IsDML(stmt) /\ isolation_level # "None"]

\* the finally block of the test server: close every registered connection
CloseRegistered(cs) ==
    [c \in DOMAIN cs |->
        IF Registered(c)
        THEN [cs[c] EXCEPT !.state = "closed", !.closes = @ + 1, !.in_txn = FALSE]
        ELSE cs[c]]

\* Only the test server wraps its loop in try/finally.
HasFinally == variant = "test"

\* handle_socket leaves its loop, by break or by an exception: cs is the
\* connection table as the running step leaves it.
EndLoop(e, cs) ==
    /\ pc' = "done"
    /\ exc' = e
    /\ transport' = "closed"
    /\ conns' = IF HasFinally THEN CloseRegistered(cs) ELSE cs
    /\ db_file' = IF HasFinally THEN "removed" ELSE db_file

\* handle_socket ends during the handshake, which no try block covers.
EndHandshake(e) ==
    /\ pc' = "done"
    /\ exc' = e
    /\ transport' = "closed"
    /\ UNCHANGED <<conns, db_file>>

\* the handshake with its assertion left out
IsHelloUnchecked(msg) == TRUE

\* line 95: assert hello_msg.get("type") == "hello"
IsHello(msg) == msg.type = "hello"

\* a loop that starts each handler as a task of its own and reads on
ReadyToRecvPipelined == pc \in {"recv", "handler"}

\* The loop reads the next frame only after handle_request has returned and
\* the response is sent (the awaits of lines 104-105).
ReadyToRecv == pc = "recv"

\* async with stream.lock: only the hrana server has the lock
LockFree(c) == variant = "hrana" => ~conns[c].lock

\* a lock that is taken and never given back
SetLockNoRelease(cs, c, b) ==
    IF variant = "hrana" THEN [cs EXCEPT ![c].lock = TRUE] ELSE cs

SetLock(cs, c, b) ==
    IF variant = "hrana" THEN [cs EXCEPT ![c].lock = b] ELSE cs

\* a response that echoes the stream id in place of the request id
ResponseIdOfStream(t) == t.req.stream_id

\* the request id a response echoes
ResponseId(t) == t.request_id

\* no value is in the codec
CodecOff ==
    /\ cv_flow = "none"
    /\ cv_in = None
    /\ cv_wire = [type |-> "null"]
    /\ cv_out = None
    /\ cv_pc = "off"

NoCursor == [description |-> None, rows |-> <<>>, rowcount |-> 0 - 1]
NoResult == [cols |-> <<>>, rows |-> <<>>, affected_row_count |-> 0]

Sessions == {1, 2}
NoRequest == [session |-> 0, type |-> "none", stream_id |-> 0, n |-> 0]

\* no second session is modelled
SessionsOff ==
    /\ g_streams = [k \in Sessions |-> <<>>]
    /\ g_conns = <<>>
    /\ g_pc = [k \in Sessions |-> "off"]
    /\ g_req = NoRequest

\* no statement's parameters are being bound
ParamsOff ==
    /\ q_params = PyList(<<>>)
    /\ q_pos = 0
    /\ q_sql_params = PyList(<<>>)
    /\ q_pc = "off"

\* no call of the client is under way
BatchOff ==
    /\ b_call = "none"
    /\ b_stmts = <<>>
    /\ b_raw = <<>>
    /\ b_txn = FALSE
    /\ b_log = <<>>
    /\ b_results = <<>>
    /\ b_ret = None
    /\ b_pc = "off"

\* no SQLite driver is modelled
DriverOff ==
    /\ d_lock = 0
    /\ d_conn = [open |-> FALSE, txn |-> FALSE]
    /\ d_calls = <<>>
    /\ d_log = <<>>
    /\ d_close = "off"

\* no HTTP driver is modelled
VersionOff ==
    /\ h_version = None
    /\ h_calls = <<>>
    /\ h_fetches = <<>>
    /\ h_posts = <<>>

ConcurrentOff == DriverOff /\ VersionOff

\* the client library does not run
ClientOff == ParamsOff /\ BatchOff /\ ConcurrentOff

\* no execute_stmt call is under way
ExecOff ==
    /\ x_cursor = NoCursor
    /\ x_want = FALSE
    /\ x_cols = <<>>
    /\ x_pos = 0
    /\ x_rows = <<>>
    /\ x_result = NoResult
    /\ x_pc = "off"

Init ==
    /\ variant \in Variants
    /\ pc = "hello"
    /\ exc = "none"
    /\ transport = "open"
    /\ frames = <<>>
    /\ tasks = <<>>
    /\ streams = <<>>
    /\ conns = <<>>
    /\ sent = <<>>
    /\ db_file = IF variant = "test" THEN "exists" ELSE "none"
    /\ CodecOff
    /\ ExecOff
    /\ SessionsOff
    /\ ClientOff

----------------------------------------------------------------------------
\* The client closes the websocket.
ClientClose ==
    /\ transport = "open"
    /\ pc # "done"
    /\ transport' = "closed"
    /\ UNCHANGED <<aside, variant, pc, exc, frames, tasks, streams, conns, sent, db_file>>

\* hello_msg = await recv_msg(), and the assertion on it
RecvHello ==
    /\ pc = "hello"
    /\ transport = "open"
    /\ \E f \in Frames :
        /\ frames' = Append(frames, f)
        /\ IF f.type = "malformed"
           THEN EndHandshake("JSONDecodeError")
           ELSE IF IsHello(f)
           THEN /\ pc' = "hello_ok"
                /\ UNCHANGED <<exc, transport, conns, db_file>>
           ELSE EndHandshake("AssertionError")
    /\ UNCHANGED <<aside, variant, tasks, streams, sent>>

\* recv_msg returns None before any hello: None has no attribute get
RecvHelloClosed ==
    /\ pc = "hello"
    /\ transport = "closed"
    /\ EndHandshake("AttributeError")
    /\ UNCHANGED <<aside, variant, frames, tasks, streams, sent>>

\* await send_msg({"type": "hello_ok"})
SendHelloOk ==
    /\ pc = "hello_ok"
    /\ IF transport = "open"
       THEN /\ sent' = Append(sent, [type |-> "hello_ok"])
            /\ pc' = "recv"
            /\ UNCHANGED <<exc, transport, conns, db_file>>
       ELSE /\ EndHandshake("ConnectionClosed")
            /\ UNCHANGED sent
    /\ UNCHANGED <<aside, variant, frames, tasks, streams>>

\* recv_msg returns None in the loop: break
RecvClosed ==
    /\ ReadyToRecv
    /\ pc # "done"
    /\ transport = "closed"
    /\ EndLoop("return", conns)
    /\ UNCHANGED <<aside, variant, frames, tasks, streams, sent>>

\* a loop that skips a frame it does not understand and reads on
RecvOtherIgnored ==
    /\ ReadyToRecv
    /\ pc # "done"
    /\ transport = "open"
    /\ Len(frames) <= MaxRequests + 1
    /\ \E f \in OtherFrames \cup {HelloFrame} : frames' = Append(frames, f)
    /\ UNCHANGED <<aside, variant, pc, exc, transport, tasks, streams, conns, sent, db_file>>

\* a frame that is not JSON, or whose type is not "request"
RecvOther ==
    /\ ReadyToRecv
    /\ pc # "done"
    /\ transport = "open"
    /\ \E f \in OtherFrames \cup {HelloFrame} :
        /\ frames' = Append(frames, f)
        /\ EndLoop(IF f.type = "malformed" THEN "JSONDecodeError" ELSE "RuntimeError", conns)
    /\ UNCHANGED <<aside, variant, tasks, streams, sent>>

NewTask(f, p, c) ==
    [request_id |-> f.request_id, req |-> f.request, pc |-> p, conn |-> c]

\* The request frames the client may send now: a request id is not reused
\* while its response is outstanding.
Sendable(type) ==
    {f \in RequestFrames : f.request.type = type /\ f.request_id \notin Pending}

CanRecvRequest ==
    /\ ReadyToRecv
    /\ pc # "done"
    /\ transport = "open"
    /\ Len(tasks) < MaxRequests

\* open_stream: sqlite3.connect is offloaded to a thread
RecvOpenStream ==
    /\ CanRecvRequest
    /\ \E f \in Sendable("open_stream") :
        /\ frames' = Append(frames, f)
        /\ tasks' = Append(tasks, NewTask(f, "connect", 0))
    /\ pc' = "handler"
    /\ UNCHANGED <<aside, variant, exc, transport, streams, conns, sent, db_file>>

\* the connection is there: streams[stream_id] = Stream(conn, ...)
OpenStreamDone(i) ==
    /\ pc # "done"
    /\ tasks[i].pc = "connect"
    /\ LET c == Len(conns) + 1
           sid == tasks[i].req.stream_id
       IN /\ conns' = Append(conns,
                [sid |-> sid, state |-> "open", closes |-> 0, lock |-> FALSE,
                 in_txn |-> FALSE, runs |-> 0])
          /\ streams' = [s \in DOMAIN streams \cup {sid} |->
                            IF s = sid THEN c ELSE streams[s]]
          /\ tasks' = [tasks EXCEPT ![i].pc = "send", ![i].conn = c]
    /\ UNCHANGED <<aside, variant, pc, exc, transport, frames, sent, db_file>>

\* a close_stream that empties the dict
StreamsAfterClear(sid) == <<>>

\* a lookup that leaves the entry in the dict
StreamsAfterGet(sid) == streams

\* the dict streams after streams.pop(sid, None)
StreamsAfterPop(sid) == [s \in DOMAIN streams \ {sid} |-> streams[s]]

\* close_stream: stream = streams.pop(stream_id, None)
RecvCloseStream ==
    /\ CanRecvRequest
    /\ \E f \in Sendable("close_stream") :
        LET sid == f.request.stream_id IN
        /\ frames' = Append(frames, f)
        /\ IF sid \in DOMAIN streams
           THEN /\ tasks' = Append(tasks, NewTask(f, "acquire", streams[sid]))
                /\ streams' = StreamsAfterPop(sid)
           ELSE /\ tasks' = Append(tasks, NewTask(f, "send", 0))
                /\ UNCHANGED streams
    /\ pc' = "handler"
    /\ UNCHANGED <<aside, variant, exc, transport, conns, sent, db_file>>

\* execute: stream = streams[stream_id], a KeyError when the id is absent
RecvExecute ==
    /\ CanRecvRequest
    /\ \E f \in Sendable("execute") :
        LET sid == f.request.stream_id IN
        /\ frames' = Append(frames, f)
        /\ IF sid \in DOMAIN streams
           THEN /\ tasks' = Append(tasks, NewTask(f, "acquire", streams[sid]))
                /\ pc' = "handler"
                /\ UNCHANGED <<exc, transport, conns, db_file>>
           ELSE /\ tasks' = Append(tasks, NewTask(f, "raised", 0))
                /\ EndLoop("KeyError", conns)
    /\ UNCHANGED <<aside, variant, streams, sent>>

\* a request of a type handle_request does not know
RecvUnknownRequest ==
    /\ CanRecvRequest
    /\ \E f \in Sendable("describe") :
        /\ frames' = Append(frames, f)
        /\ tasks' = Append(tasks, NewTask(f, "raised", 0))
    /\ EndLoop("RuntimeError", conns)
    /\ UNCHANGED <<aside, variant, streams, sent>>

\* The handler enters the operation on its stream's connection: it takes
\* stream.lock (hrana) and hands the operation to a worker thread.
Acquire(i) ==
    /\ pc # "done"
    /\ tasks[i].pc = "acquire"
    /\ LockFree(tasks[i].conn)
    /\ conns' = SetLock(conns, tasks[i].conn, TRUE)
    /\ tasks' = [tasks EXCEPT ![i].pc =
                    IF tasks[i].req.type = "execute" THEN "executing" ELSE "closing"]
    /\ UNCHANGED <<aside, variant, pc, exc, transport, frames, streams, sent, db_file>>

\* The outcomes of conn.close() in the worker thread: it returns, or the
\* sqlite3 module raises (for one, a connection made without
\* check_same_thread=False refuses a thread other than the one that made
\* it). The close calls of the finally block run in the loop's own thread
\* and are taken to return.
CloseOutcomes == {"ok", "ProgrammingError"}

\* stream.conn.close() has returned or raised; the async with block gives
\* the lock back either way
CloseStreamDone(i) ==
    /\ pc # "done"
    /\ tasks[i].pc = "closing"
    /\ \E r \in CloseOutcomes :
        LET c == tasks[i].conn IN
        IF r = "ok"
        THEN /\ conns' = SetLock([conns EXCEPT ![c].state = "closed",
                                               ![c].closes = @ + 1,
                                               ![c].in_txn = FALSE],
                                 c, FALSE)
             /\ tasks' = [tasks EXCEPT ![i].pc = "send"]
             /\ UNCHANGED <<pc, exc, transport, db_file>>
        ELSE /\ tasks' = [tasks EXCEPT ![i].pc = "raised"]
             /\ EndLoop(r, SetLock(conns, c, FALSE))
    /\ UNCHANGED <<aside, variant, frames, streams, sent>>

\* execute_stmt has returned or raised
ExecuteDone(i) ==
    /\ pc # "done"
    /\ tasks[i].pc = "executing"
    /\ LET c == tasks[i].conn
           r == execute_stmt(conns, c, tasks[i].req.stmt)
           after == SetLock(AfterExecute(conns, c, tasks[i].req.stmt), c, FALSE)
       IN IF r = "ok"
          THEN /\ conns' = after
               /\ tasks' = [tasks EXCEPT ![i].pc = "send"]
               /\ UNCHANGED <<pc, exc, transport, db_file>>
          ELSE /\ tasks' = [tasks EXCEPT ![i].pc = "raised"]
               /\ EndLoop(r, after)
    /\ UNCHANGED <<aside, variant, frames, streams, sent>>

\* await send_msg({"type": "response_ok", "request_id": ..., "response": ...})
SendResponse(i) ==
    /\ pc # "done"
    /\ tasks[i].pc = "send"
    /\ IF transport = "open"
       THEN /\ sent' = Append(sent, [type |-> "response_ok",
                                     request_id |-> ResponseId(tasks[i]),
                                     response |-> tasks[i].req.type])
            /\ tasks' = [tasks EXCEPT ![i].pc = "done"]
            /\ pc' = "recv"
            /\ UNCHANGED <<exc, transport, conns, db_file>>
       ELSE /\ tasks' = [tasks EXCEPT ![i].pc = "raised"]
            /\ EndLoop("ConnectionClosed", conns)
            /\ UNCHANGED sent
    /\ UNCHANGED <<aside, variant, frames, streams>>

Next ==
    \/ ClientClose
    \/ RecvHello
    \/ RecvHelloClosed
    \/ SendHelloOk
    \/ RecvClosed
    \/ RecvOther
    \/ RecvOpenStream
    \/ RecvCloseStream
    \/ RecvExecute
    \/ RecvUnknownRequest
    \/ \E i \in DOMAIN tasks : OpenStreamDone(i)
    \/ \E i \in DOMAIN tasks : Acquire(i)
    \/ \E i \in DOMAIN tasks : CloseStreamDone(i)
    \/ \E i \in DOMAIN tasks : ExecuteDone(i)
    \/ \E i \in DOMAIN tasks : SendResponse(i)

Spec == Init /\ [][Next]_vars

\* The steps of the server that do not wait for the client: a handler that
\* can go on does go on, since the event loop runs every ready coroutine and
\* the worker pool finishes every operation handed to it.
HandlerStep ==
    \/ SendHelloOk
    \/ \E i \in DOMAIN tasks : OpenStreamDone(i)
    \/ \E i \in DOMAIN tasks : Acquire(i)
    \/ \E i \in DOMAIN tasks : CloseStreamDone(i)
    \/ \E i \in DOMAIN tasks : ExecuteDone(i)
    \/ \E i \in DOMAIN tasks : SendResponse(i)

\* The client of the fair behaviours numbers its requests in turn and sends
\* statements without arguments.
PlainClient ==
    \A k \in DOMAIN frames' :
        frames'[k].type = "request" =>
            /\ frames'[k].request_id = k % 2
            /\ frames'[k].request.stmt.sql \in {"none", "select", "invalid"}
            /\ frames'[k].request.stmt.args = <<>>

NextFair ==
    \/ ClientClose
    \/ RecvHello
    \/ RecvHelloClosed
    \/ RecvClosed
    \/ RecvOther
    \/ RecvOpenStream /\ PlainClient
    \/ RecvCloseStream /\ PlainClient
    \/ RecvExecute /\ PlainClient
    \/ RecvUnknownRequest /\ PlainClient
    \/ HandlerStep

SpecFair == Init /\ [][NextFair]_vars /\ WF_vars(HandlerStep)

----------------------------------------------------------------------------
\* The value codec on its own: one value is taken from SQLite to the frame
\* and back ("result"), or from a frame of the client to SQLite ("arg").

ByteValues == {0, 77, 255}
Blobs == UNION {[1..n -> ByteValues] : n \in 0..MaxBlobLen}
Texts == UNION {[1..n -> {97, 49}] : n \in 0..2}

\* the values a SQLite column can hold
SqliteValues ==
    {None}
    \cup {PyInt(n) : n \in MinInt..MaxInt}
    \cup {PyFloat(h) : h \in -3..3}
    \cup {PyStr(cs) : cs \in Texts}
    \cup {PyBytes(bs) : bs \in Blobs}

\* The dict a client sends for the value v: the integer as a decimal string,
\* the blob as base64 text under "base64", with its padding or without.
client_value(v, padded) ==
    CASE v.py = "None" -> [type |-> "null"]
      [] v.py = "int" -> [type |-> "integer", value |-> PyStr(str_int(v.v))]
      [] v.py = "float" -> [type |-> "float", value |-> v]
      [] v.py = "str" -> [type |-> "text", value |-> v]
      [] v.py = "bytes" ->
            [type |-> "blob",
             base64 |-> PyStr(IF padded THEN b64encode(v.v) ELSE strip_pad(b64encode(v.v)))]

\* the session does not run
SessionOff ==
    /\ variant \in Variants
    /\ pc = "off"
    /\ exc = "none"
    /\ transport = "closed"
    /\ frames = <<>>
    /\ tasks = <<>>
    /\ streams = <<>>
    /\ conns = <<>>
    /\ sent = <<>>
    /\ db_file = "none"

InitCodec ==
    /\ SessionOff
    /\ ExecOff
    /\ SessionsOff
    /\ ClientOff
    /\ cv_out = None
    /\ \/ /\ cv_flow = "result"
          /\ cv_in \in SqliteValues
          /\ cv_wire = [type |-> "null"]
          /\ cv_pc = "from_sqlite"
       \/ /\ cv_flow = "arg"
          /\ cv_in \in SqliteValues
          /\ \E padded \in BOOLEAN : cv_wire = client_value(cv_in, padded)
          /\ cv_pc = "to_sqlite"
       \/ /\ cv_flow = "arg"
          /\ cv_in = Raise("malformed")
          /\ cv_wire \in MalformedValues
          /\ cv_pc = "to_sqlite"

\* rows.append([value_from_sqlite(val) for val in row])
ValueFromSqlite ==
    /\ cv_pc = "from_sqlite"
    /\ cv_wire' = value_from_sqlite(cv_in)
    /\ cv_pc' = "send"
    /\ UNCHANGED <<not_codec, cv_flow, cv_in, cv_out>>

\* send_msg: json.dumps of the frame, and the peer's json.loads
SendValue ==
    /\ cv_pc = "send"
    /\ IF ~json_serializable(cv_wire)
       THEN /\ cv_out' = Raise("TypeError")
            /\ cv_pc' = "raised"
            /\ UNCHANGED cv_wire
       ELSE /\ cv_wire' = json_wire(cv_wire)
            /\ cv_pc' = "to_sqlite"
            /\ UNCHANGED cv_out
    /\ UNCHANGED <<not_codec, cv_flow, cv_in>>

\* params = [value_to_sqlite(arg) for arg in stmt["args"]]
ValueToSqlite ==
    /\ cv_pc = "to_sqlite"
    /\ cv_out' = value_to_sqlite(cv_wire)
    /\ cv_pc' = IF IsRaise(value_to_sqlite(cv_wire)) THEN "raised" ELSE "bound"
    /\ UNCHANGED <<not_codec, cv_flow, cv_in, cv_wire>>

NextCodec ==
    \/ ValueFromSqlite
    \/ SendValue
    \/ ValueToSqlite

SpecCodec == InitCodec /\ [][NextCodec]_vars

----------------------------------------------------------------------------
\* execute_stmt on its own, from the cursor conn.execute returned to the
\* dict it returns.

ColumnNames == {<<"id">>, <<"id", "v">>}
CellValues == {None, PyInt(7), PyStr(<<97>>), PyBytes(<<77>>)}

\* the rows a cursor with n columns can yield
RowsOf(n) == UNION {[1..m -> [1..n -> CellValues]] : m \in 0..MaxRows}

\* The cursors of a query, of a data-modification statement (rowcount is
\* the number of rows changed) and of any other statement (rowcount -1).
Cursors ==
    UNION {{[description |-> PyList(d), rows |-> rs, rowcount |-> 0 - 1] :
                rs \in RowsOf(Len(d))} : d \in ColumnNames}
    \cup {[description |-> None, rows |-> <<>>, rowcount |-> n] : n \in -1..MaxRows}

InitExec ==
    /\ SessionOff
    /\ CodecOff
    /\ SessionsOff
    /\ ClientOff
    /\ x_cursor \in Cursors
    /\ x_want \in BOOLEAN
    /\ x_cols = <<>>
    /\ x_pos = 0
    /\ x_rows = <<>>
    /\ x_result = NoResult
    /\ x_pc = "cols"

\* cursor.description or []: only the test server has the "or []"
DescriptionOrEmpty ==
    IF x_cursor.description = None /\ variant = "test" THEN PyList(<<>>)
    ELSE x_cursor.description

\* cols = [{"name": name} for name, *_ in cursor.description]
ExecuteStmtCols ==
    /\ x_pc = "cols"
    /\ IF DescriptionOrEmpty = None
       THEN /\ x_pc' = "raised"
            /\ x_result' = Raise("TypeError")
            /\ UNCHANGED x_cols
       ELSE /\ x_cols' = [k \in DOMAIN DescriptionOrEmpty.v |->
                                [name |-> DescriptionOrEmpty.v[k]]]
            /\ x_pc' = "rows"
            /\ UNCHANGED x_result
    /\ UNCHANGED <<not_exec, x_cursor, x_want, x_pos, x_rows>>

\* a loop that leaves the cursor alone when the rows are not wanted
MoreRowsIfWanted == x_want /\ x_pos < Len(x_cursor.rows)

\* for row in cursor: the cursor has another row
MoreRows == x_pos < Len(x_cursor.rows)

\* the body of the loop: if stmt["want_rows"]: rows.append([...])
ExecuteStmtRow ==
    /\ x_pc = "rows"
    /\ MoreRows
    /\ x_pos' = x_pos + 1
    /\ x_rows' = IF x_want
                 THEN Append(x_rows, [k \in DOMAIN x_cursor.rows[x_pos + 1] |->
                                        value_from_sqlite(x_cursor.rows[x_pos + 1][k])])
                 ELSE x_rows
    /\ UNCHANGED <<not_exec, x_cursor, x_want, x_cols, x_result, x_pc>>

\* affected_row_count: the test server clamps cursor.rowcount at 0, the
\* hrana server returns it as it is
affected_row_count ==
    IF variant = "test" /\ x_cursor.rowcount < 0 THEN 0 ELSE x_cursor.rowcount

\* return {"cols": cols, "rows": rows, "affected_row_count": ...}
ExecuteStmtReturn ==
    /\ x_pc = "rows"
    /\ ~MoreRows
    /\ x_result' = [cols |-> x_cols, rows |-> x_rows,
                    affected_row_count |-> affected_row_count]
    /\ x_pc' = "returned"
    /\ UNCHANGED <<not_exec, x_cursor, x_want, x_cols, x_pos, x_rows>>

\* send_msg of the response that holds the result: json.dumps raises a
\* TypeError when a cell of a row holds bytes
ExecuteStmtSend ==
    /\ x_pc = "returned"
    /\ IF \A r \in DOMAIN x_result.rows : \A k \in DOMAIN x_result.rows[r] :
                json_serializable(x_result.rows[r][k])
       THEN /\ x_pc' = "sent"
            /\ UNCHANGED x_result
       ELSE /\ x_pc' = "raised"
            /\ x_result' = Raise("TypeError")
    /\ UNCHANGED <<not_exec, x_cursor, x_want, x_cols, x_pos, x_rows>>

NextExec ==
    \/ ExecuteStmtCols
    \/ ExecuteStmtRow
    \/ ExecuteStmtReturn
    \/ ExecuteStmtSend

SpecExec == InitExec /\ [][NextExec]_vars

----------------------------------------------------------------------------
\* Two sessions of one server, each a call of handle_socket with its own
\* local dict streams.  A step is one request handled by one of them; the
\* handshakes are done.

\* a server whose dict streams is a module-level variable
registry_shared(k) == 1

\* the dict that the handle_request closure of session k reads and writes:
\* streams is a local variable of handle_socket
registry(k) == k

InitSessions ==
    /\ SessionOff
    /\ CodecOff
    /\ ExecOff
    /\ ClientOff
    /\ g_streams = [k \in Sessions |-> <<>>]
    /\ g_conns = <<>>
    /\ g_pc = [k \in Sessions |-> "open"]
    /\ g_req = NoRequest

SessionRequest(k, type, sid) ==
    /\ g_pc[k] = "open"
    /\ g_req.n < MaxSessionRequests
    /\ g_req' = [session |-> k, type |-> type, stream_id |-> sid, n |-> g_req.n + 1]

\* open_stream: streams[stream_id] = Stream(sqlite3.connect(db_file))
SessionOpenStream(k, sid) ==
    /\ SessionRequest(k, "open_stream", sid)
    /\ g_conns' = Append(g_conns, [session |-> k, sid |-> sid, state |-> "open", runs |-> 0])
    /\ g_streams' = [g_streams EXCEPT ![registry(k)] =
                        [s \in DOMAIN @ \cup {sid} |->
                            IF s = sid THEN Len(g_conns) + 1 ELSE @[s]]]
    /\ UNCHANGED <<variant, not_sessions, g_pc>>

\* close_stream: streams.pop(stream_id, None), and conn.close() if it was there
SessionCloseStream(k, sid) ==
    /\ SessionRequest(k, "close_stream", sid)
    /\ LET d == g_streams[registry(k)] IN
        /\ g_streams' = [g_streams EXCEPT ![registry(k)] =
                            [s \in DOMAIN d \ {sid} |-> d[s]]]
        /\ g_conns' = IF sid \in DOMAIN d
                      THEN [g_conns EXCEPT ![d[sid]].state = "closed"]
                      ELSE g_conns
    /\ UNCHANGED <<variant, not_sessions, g_pc>>

\* the connections after the session with registry d has ended: the finally
\* block of the test server closes those in d
SessionsAfterEnd(d) ==
    IF HasFinally
    THEN [c \in DOMAIN g_conns |->
            IF \E s \in DOMAIN d : d[s] = c
            THEN [g_conns[c] EXCEPT !.state = "closed"] ELSE g_conns[c]]
    ELSE g_conns

\* execute: streams[stream_id], a KeyError that ends the session when the id
\* is absent, and the statement run on the connection
SessionExecute(k, sid) ==
    /\ SessionRequest(k, "execute", sid)
    /\ LET d == g_streams[registry(k)] IN
        IF sid \in DOMAIN d
        THEN /\ g_conns' = [g_conns EXCEPT ![d[sid]].runs = @ + 1]
             /\ UNCHANGED g_pc
        ELSE /\ g_conns' = SessionsAfterEnd(d)
             /\ g_pc' = [g_pc EXCEPT ![k] = "done"]
    /\ UNCHANGED <<variant, not_sessions, g_streams>>

\* the client of session k closes its websocket: the loop breaks
SessionEnd(k) ==
    /\ g_pc[k] = "open"
    /\ g_pc' = [g_pc EXCEPT ![k] = "done"]
    /\ g_conns' = SessionsAfterEnd(g_streams[registry(k)])
    /\ g_req' = [g_req EXCEPT !.session = k, !.type = "end", !.stream_id = 0]
    /\ UNCHANGED <<variant, not_sessions, g_streams>>

NextSessions ==
    \/ \E k \in Sessions, sid \in StreamIds : SessionOpenStream(k, sid)
    \/ \E k \in Sessions, sid \in StreamIds : SessionCloseStream(k, sid)
    \/ \E k \in Sessions, sid \in StreamIds : SessionExecute(k, sid)
    \/ \E k \in Sessions : SessionEnd(k)

SpecSessions == InitSessions /\ [][NextSessions]_vars

----------------------------------------------------------------------------
\* _batch of the SQLite driver binding the parameters of one statement.  A
\* parameter name is a sequence of characters.

ParamNames == {<<":", "a">>, <<"@", "a">>, <<"$", "b">>, <<"a">>, <<":">>, <<>>}
ParamValues == {PyInt(1), PyInt(2)}

\* the item lists of the dicts with up to MaxParams keys: no key twice
ParamItems ==
    {its \in UNION {[1..n -> ParamNames \X ParamValues] : n \in 0..MaxParams} :
        \A i, j \in DOMAIN its : i # j => its[i][1] # its[j][1]}

ServerOff == SessionOff /\ CodecOff /\ ExecOff /\ SessionsOff

InitParams ==
    /\ ServerOff
    /\ BatchOff
    /\ ConcurrentOff
    /\ \/ \E its \in ParamItems : q_params = PyDict(its)
       \/ \E v \in ParamValues : q_params = PyList(<<v>>)
    /\ q_pos = 0
    /\ q_sql_params = PyList(<<>>)
    /\ q_pc = "start"

\* name[:1]
FirstChar(name) == IF name = <<>> THEN <<>> ELSE <<name[1]>>

\* name[1:]
Stripped(name) == IF name = <<>> THEN <<>> ELSE Tail(name)

\* line 43: name[:1] in (":", "@", "$")
HasSigil(name) == FirstChar(name) \in {<<":">>, <<"@">>, <<"$">>}

\* d[key] = value on a dict held as its items: the value of a key that is
\* there is replaced in place, a new key goes to the end
SetItem(items, key, value) ==
    IF \E i \in DOMAIN items : items[i][1] = key
    THEN [i \in DOMAIN items |-> IF items[i][1] = key THEN <<key, value>> ELSE items[i]]
    ELSE Append(items, <<key, value>>)

\* lines 40-41 and 46-47: isinstance(stmt.params, dict)
ParamsStart ==
    /\ q_pc = "start"
    /\ IF q_params.py = "dict"
       THEN /\ q_sql_params' = PyDict(<<>>)
            /\ q_pc' = "loop"
       ELSE /\ q_sql_params' = q_params
            /\ q_pc' = "execute"
    /\ UNCHANGED <<server, batch, concurrent, q_params, q_pos>>

\* lines 42-45: one item of stmt.params.items()
ParamsItem ==
    /\ q_pc = "loop"
    /\ q_pos < Len(q_params.v)
    /\ LET name == q_params.v[q_pos + 1][1]
           value == q_params.v[q_pos + 1][2]
       IN IF ~HasSigil(name)
          THEN /\ q_pc' = "raised"
               /\ UNCHANGED <<q_pos, q_sql_params>>
          ELSE /\ q_sql_params' = PyDict(SetItem(q_sql_params.v, Stripped(name), value))
               /\ q_pos' = q_pos + 1
               /\ UNCHANGED q_pc
    /\ UNCHANGED <<server, batch, concurrent, q_params>>

\* the for loop is through
ParamsLoopEnd ==
    /\ q_pc = "loop"
    /\ q_pos = Len(q_params.v)
    /\ q_pc' = "execute"
    /\ UNCHANGED <<server, batch, concurrent, q_params, q_pos, q_sql_params>>

\* line 48: cursor = conn.execute(stmt.sql, sql_params)
ParamsExecute ==
    /\ q_pc = "execute"
    /\ q_pc' = "executed"
    /\ UNCHANGED <<server, batch, concurrent, q_params, q_pos, q_sql_params>>

NextParams ==
    \/ ParamsStart
    \/ ParamsItem
    \/ ParamsLoopEnd
    \/ ParamsExecute

SpecParams == InitParams /\ [][NextParams]_vars

----------------------------------------------------------------------------
\* One call of Client.batch or Client.transaction on a file-URL client: the
\* statements go through _SqliteDriver.batch to _batch, which runs them one
\* by one on the connection.

SqlTexts == {"SELECT 42", "SELECT 'two'", "VALUES (?)", "SELECT foo"}

\* the parameters a caller gives with a statement
StmtParams ==
    {PyTuple(<<>>), PyList(<<PyInt(1)>>), PyTuple(<<PyInt(2)>>),
     PyDict(<< <<<<":", "a">>, PyInt(1)>> >>), PyDict(<< <<<<"a">>, PyInt(1)>> >>)}

\* Stmt = Union[str, Tuple[str, Params]]
ClientStmts ==
    {[py |-> "str", sql |-> q] : q \in SqlTexts}
    \cup {[py |-> "tuple", sql |-> q, params |-> ps] : q \in SqlTexts, ps \in StmtParams}

InitBatch ==
    /\ ServerOff
    /\ ParamsOff
    /\ ConcurrentOff
    /\ b_call \in {"batch", "transaction"}
    /\ b_stmts \in UNION {[1..n -> ClientStmts] : n \in 0..MaxBatch}
    /\ b_raw = <<>>
    /\ b_txn \in BOOLEAN
    /\ b_log = <<>>
    /\ b_results = <<>>
    /\ b_ret = None
    /\ b_pc = "call"

RawStmt(sql, ps) == [sql |-> sql, params |-> ps]

\* lines 55-63 of Client.batch: the _RawStmt of one statement
raw_stmt(stmt) ==
    IF stmt.py = "tuple"
    THEN IF stmt.params.py = "dict"
         THEN RawStmt(stmt.sql, stmt.params)
         ELSE RawStmt(stmt.sql, PyList(stmt.params.v))
    ELSE RawStmt(stmt.sql, PyList(<<>>))

Bare(q) == [py |-> "str", sql |-> q]

\* line 68: ["BEGIN"] + list(stmts) + ["COMMIT"]
transaction_stmts(stmts) == <<Bare("BEGIN")>> \o stmts \o <<Bare("COMMIT")>>

\* a slice that keeps the result of COMMIT
transaction_slice_from_1(rs) == IF Len(rs) < 2 THEN <<>> ELSE SubSeq(rs, 2, Len(rs))

\* line 68: [1:-1]
transaction_slice(rs) == IF Len(rs) < 2 THEN <<>> ELSE SubSeq(rs, 2, Len(rs) - 1)

\* Client.batch builds raw_stmts and calls the driver; _batch starts with
\* conn.rollback()
BatchCall ==
    /\ b_pc = "call"
    /\ LET given == IF b_call = "transaction" THEN transaction_stmts(b_stmts) ELSE b_stmts
       IN b_raw' = [i \in DOMAIN given |-> raw_stmt(given[i])]
    /\ b_txn' = FALSE
    /\ b_pc' = "loop"
    /\ UNCHANGED <<server, params, concurrent, b_call, b_stmts, b_log, b_results, b_ret>>

\* the ValueError of lines 42-44, if a name of a dict has no sigil
bind_error(ps) ==
    ps.py = "dict" /\ \E i \in DOMAIN ps.v : ~HasSigil(ps.v[i][1])

\* the positional parameters the statement has
placeholders(sql) == IF sql = "VALUES (?)" THEN 1 ELSE 0

\* conn.execute(sql, sql_params): the sqlite3.DatabaseError it raises, or "ok"
engine_error(sql, ps, txn) ==
    IF sql = "SELECT foo" THEN "no such column: foo"
    ELSE IF sql = "BEGIN" /\ txn THEN "cannot start a transaction within a transaction"
    ELSE IF sql = "COMMIT" /\ ~txn THEN "cannot commit - no transaction is active"
    ELSE IF ps.py = "dict" /\ placeholders(sql) > 0 THEN "Binding 1 has no name"
    ELSE IF ps.py = "list" /\ Len(ps.v) # placeholders(sql) THEN "Incorrect number of bindings supplied"
    ELSE "ok"

\* lines 52-58: the ResultSet of a statement that ran
result_set(sql, ps) ==
    CASE sql = "SELECT 42" -> [columns |-> <<"42">>, rows |-> << <<PyInt(42)>> >>]
      [] sql = "SELECT 'two'" -> [columns |-> <<"'two'">>, rows |-> << <<PyStr(<<116, 119, 111>>)>> >>]
      [] sql = "VALUES (?)" -> [columns |-> <<"column1">>, rows |-> << <<ps.v[1]>> >>]
      [] OTHER -> [columns |-> <<>>, rows |-> <<>>]

\* an exception that does not say what the engine said
client_response_error_blank(e) ==
    [py |-> "raise", v |-> "ClientResponseError", message |-> ""]

\* line 50: raise ClientResponseError(str(e))
client_response_error(e) ==
    [py |-> "raise", v |-> "ClientResponseError", message |-> e]

\* a loop that puts each ResultSet in front of the list
result_sets_prepend(rs, r) == <<r>> \o rs

\* line 58: result_sets.append(ResultSet(columns, rows))
result_sets_append(rs, r) == Append(rs, r)

\* one statement of the for loop of _batch
BatchStmt ==
    /\ b_pc = "loop"
    /\ Len(b_results) < Len(b_raw)
    /\ LET stmt == b_raw[Len(b_results) + 1]
           e == engine_error(stmt.sql, stmt.params, b_txn)
       IN IF bind_error(stmt.params)
          THEN /\ b_ret' = Raise("ValueError")
               /\ b_pc' = "raised"
               /\ UNCHANGED <<b_txn, b_log, b_results>>
          ELSE IF e # "ok"
          THEN /\ b_ret' = client_response_error(e)
               /\ b_pc' = "raised"
               /\ b_log' = Append(b_log, stmt.sql)
               /\ UNCHANGED <<b_txn, b_results>>
          ELSE /\ b_log' = Append(b_log, stmt.sql)
               /\ b_txn' = IF stmt.sql = "BEGIN" THEN TRUE
                           ELSE IF stmt.sql = "COMMIT" THEN FALSE ELSE b_txn
               /\ b_results' = result_sets_append(b_results, result_set(stmt.sql, stmt.params))
               /\ UNCHANGED <<b_ret, b_pc>>
    /\ UNCHANGED <<server, params, concurrent, b_call, b_stmts, b_raw>>

\* _batch returns result_sets, and the call returns it (transaction: its
\* slice)
BatchReturn ==
    /\ b_pc = "loop"
    /\ Len(b_results) = Len(b_raw)
    /\ b_ret' = PyList(IF b_call = "transaction" THEN transaction_slice(b_results)
                       ELSE b_results)
    /\ b_pc' = "returned"
    /\ UNCHANGED <<server, params, concurrent, b_call, b_stmts, b_raw, b_txn, b_log, b_results>>

NextBatch ==
    \/ BatchCall
    \/ BatchStmt
    \/ BatchReturn

SpecBatch == InitBatch /\ [][NextBatch]_vars

----------------------------------------------------------------------------
\* The value codec of the HTTP driver of the client: a parameter value is
\* encoded for the request body, and a value of a result row decoded.

\* base64.b64encode(value).strip(b"=").decode(): the JSON object of a blob
HttpBlob(text) == [py |-> "dict", base64 |-> PyStr(text)]

\* _encode_value of http_driver.py
_encode_value(value) ==
    IF value.py \in {"str", "float", "int"} THEN value
    ELSE IF value.py = "bytes" THEN HttpBlob(strip_pad(b64encode(value.v)))
    ELSE IF value.py = "None" THEN None
    ELSE Raise("ValueError")

\* a decoder that takes the text as it comes
repad_none(cs) == cs

\* line 126: value_json["base64"] + "==="
repad(cs) == cs \o <<Pad, Pad, Pad>>

\* _decode_value of http_driver.py
_decode_value(value_json) ==
    IF value_json.py \in {"int", "float"} THEN value_json
    ELSE IF value_json.py = "str" THEN value_json
    ELSE IF value_json.py = "None" THEN None
    ELSE IF "base64" \in DOMAIN value_json THEN b64decode(repad(value_json.base64.v))
    ELSE Raise("RuntimeError")

InitHttpCodec ==
    /\ SessionOff
    /\ ExecOff
    /\ SessionsOff
    /\ ClientOff
    /\ cv_flow = "http"
    /\ cv_in \in SqliteValues
    /\ cv_wire = None
    /\ cv_out = None
    /\ cv_pc = "encode"

HttpEncodeValue ==
    /\ cv_pc = "encode"
    /\ cv_wire' = _encode_value(cv_in)
    /\ cv_pc' = "decode"
    /\ UNCHANGED <<not_codec, cv_flow, cv_in, cv_out>>

HttpDecodeValue ==
    /\ cv_pc = "decode"
    /\ cv_out' = _decode_value(cv_wire)
    /\ cv_pc' = "done"
    /\ UNCHANGED <<not_codec, cv_flow, cv_in, cv_wire>>

NextHttpCodec ==
    \/ HttpEncodeValue
    \/ HttpDecodeValue

SpecHttpCodec == InitHttpCodec /\ [][NextHttpCodec]_vars

----------------------------------------------------------------------------
\* Concurrent batch calls and a close() on one _SqliteDriver
\* (sqlite_driver.py)

\* the two batch calls issued on the client
DriverCalls == {1, 2}

\* the SQL the calls are made of
DriverSql == {"BEGIN", "COMMIT", "SELECT 42", "SELECT foo"}

DriverStmts == UNION {[1..n -> DriverSql] : n \in 1..MaxDriverStmts}

DriverCall(stmts) ==
    [stmts |-> stmts, pc |-> "start", pos |-> 0, results |-> <<>>, ret |-> None]

\* line 21: a connection just made; the calls are issued, close() is not
\* yet called
InitDriver ==
    /\ ServerOff
    /\ ParamsOff
    /\ BatchOff
    /\ VersionOff
    /\ d_lock = 0
    /\ d_conn = [open |-> TRUE, txn |-> FALSE]
    /\ d_calls \in [DriverCalls -> {DriverCall(ss) : ss \in DriverStmts}]
    /\ d_log = <<>>
    /\ d_close = "idle"

\* a lock that lets every caller in
lock_free_for_all(l) == TRUE

\* asyncio.Lock: acquire goes through when the lock is not held
lock_free(l) == l = 0

\* a _batch that leaves the connection as it finds it
rollback_skipped(c) == c

\* line 34: conn.rollback() ends the transaction that is open, if any
rollback(c) == [c EXCEPT !.txn = FALSE]

\* sqlite3 on a closed connection
ClosedDatabase == "Cannot operate on a closed database."

\* lines 26-28: the call takes _conn_lock and hands _batch to the executor
DriverAcquire(k) ==
    /\ d_calls[k].pc = "start"
    /\ lock_free(d_lock)
    /\ d_lock' = k
    /\ d_calls' = [d_calls EXCEPT ![k].pc = "submitted"]
    /\ UNCHANGED <<not_driver, d_conn, d_log, d_close>>

\* line 34, in the executor; on a closed connection it raises outside the
\* try of lines 38-50
DriverRollback(k) ==
    /\ d_calls[k].pc = "submitted"
    /\ IF d_conn.open
       THEN /\ d_conn' = rollback(d_conn)
            /\ d_calls' = [d_calls EXCEPT ![k].pc = "loop"]
       ELSE /\ d_calls' = [d_calls EXCEPT ![k].pc = "finished",
                                          ![k].ret = Raise("ProgrammingError")]
            /\ UNCHANGED d_conn
    /\ UNCHANGED <<not_driver, d_lock, d_log, d_close>>

\* lines 37-58: one statement of the for loop, in the executor
DriverStmt(k) ==
    /\ d_calls[k].pc = "loop"
    /\ d_calls[k].pos < Len(d_calls[k].stmts)
    /\ LET sql == d_calls[k].stmts[d_calls[k].pos + 1]
           e == IF d_conn.open THEN engine_error(sql, PyList(<<>>), d_conn.txn)
                ELSE ClosedDatabase
       IN /\ d_log' = IF d_conn.open
                      THEN Append(d_log, [call |-> k, sql |-> sql, txn |-> d_conn.txn])
                      ELSE d_log
          /\ IF e # "ok"
             THEN /\ d_calls' = [d_calls EXCEPT ![k].pc = "finished",
                                                ![k].ret = client_response_error(e)]
                  /\ UNCHANGED d_conn
             ELSE /\ d_calls' = [d_calls EXCEPT
                        ![k].pos = @ + 1,
                        ![k].results = result_sets_append(@, result_set(sql, PyList(<<>>)))]
                  /\ d_conn' = [d_conn EXCEPT !.txn =
                        IF sql = "BEGIN" THEN TRUE
                        ELSE IF sql = "COMMIT" THEN FALSE ELSE @]
    /\ UNCHANGED <<not_driver, d_lock, d_close>>

\* line 60: _batch returns result_sets
DriverReturn(k) ==
    /\ d_calls[k].pc = "loop"
    /\ d_calls[k].pos = Len(d_calls[k].stmts)
    /\ d_calls' = [d_calls EXCEPT ![k].pc = "finished",
                                  ![k].ret = PyList(d_calls[k].results)]
    /\ UNCHANGED <<not_driver, d_lock, d_conn, d_log, d_close>>

\* lines 26-28: the future of the executor is done, the async with block is
\* left and _conn_lock released, whether _batch returned or raised
DriverRelease(k) ==
    /\ d_calls[k].pc = "finished"
    /\ d_lock' = 0
    /\ d_calls' = [d_calls EXCEPT ![k].pc = "done"]
    /\ UNCHANGED <<not_driver, d_conn, d_log, d_close>>

\* lines 30-31: close() calls self._conn.close() at once; closing ends the
\* transaction that is open
DriverClose ==
    /\ d_close = "idle"
    /\ d_conn' = [open |-> FALSE, txn |-> FALSE]
    /\ d_close' = "closed"
    /\ UNCHANGED <<not_driver, d_lock, d_calls, d_log>>

NextDriver ==
    \/ \E k \in DriverCalls : DriverAcquire(k)
    \/ \E k \in DriverCalls : DriverRollback(k)
    \/ \E k \in DriverCalls : DriverStmt(k)
    \/ \E k \in DriverCalls : DriverReturn(k)
    \/ \E k \in DriverCalls : DriverRelease(k)
    \/ DriverClose

SpecDriver == InitDriver /\ [][NextDriver]_vars

----------------------------------------------------------------------------
\* Concurrent batch calls on one _HttpDriver
\* (libsql-server/packages/python/libsql-client/libsql_client/http_driver.py)

HttpCalls == 1..MaxHttpCalls

\* what the version endpoint answers: the status, and the text split at the
\* dots (numeric: every part is an integer literal)
VersionResponses ==
    {[status |-> 200, parts |-> <<0, 1, 0>>, numeric |-> TRUE],
     [status |-> 200, parts |-> <<0, 2, 0>>, numeric |-> TRUE],
     [status |-> 200, parts |-> <<1, 0>>, numeric |-> TRUE],
     [status |-> 200, parts |-> <<>>, numeric |-> FALSE],
     [status |-> 404, parts |-> <<>>, numeric |-> TRUE],
     [status |-> 500, parts |-> <<>>, numeric |-> TRUE]}

\* line 26: resp.ok
resp_ok(resp) == resp.status < 400

\* lines 23-41: the version _get_version returns for a response, or what it
\* raises
_get_version(resp) ==
    IF ~resp_ok(resp)
    THEN IF resp.status = 404 THEN PyTuple(<<0, 0, 0>>)
         ELSE Raise("ClientHttpError")
    ELSE IF ~resp.numeric THEN Raise("ValueError")
    ELSE IF Len(resp.parts) # 3 THEN Raise("ClientError")
    ELSE PyTuple(resp.parts)

HttpCall == [pc |-> "start", version |-> None, ret |-> None]

\* line 21: self._version = None; the calls are issued
InitVersion ==
    /\ ServerOff
    /\ ParamsOff
    /\ BatchOff
    /\ DriverOff
    /\ h_version = None
    /\ h_calls = [k \in HttpCalls |-> HttpCall]
    /\ h_fetches = <<>>
    /\ h_posts = <<>>

\* line 44: if self._version is None, up to the await of _get_version;
\* else line 46
VersionCheck(k) ==
    /\ h_calls[k].pc = "start"
    /\ h_calls' = [h_calls EXCEPT
            ![k].pc = IF h_version = None THEN "fetching" ELSE "post",
            ![k].version = h_version]
    /\ UNCHANGED <<not_version, h_version, h_fetches, h_posts>>

\* lines 45-46: _get_version is back; its value is assigned to
\* self._version and returned, its exception leaves batch
VersionFetched(k) ==
    /\ h_calls[k].pc = "fetching"
    /\ \E resp \in VersionResponses :
        LET r == _get_version(resp) IN
        IF r.py = "raise"
        THEN /\ h_calls' = [h_calls EXCEPT ![k].pc = "raised", ![k].ret = r]
             /\ UNCHANGED <<h_version, h_fetches>>
        ELSE /\ h_version' = r
             /\ h_fetches' = Append(h_fetches, resp)
             /\ h_calls' = [h_calls EXCEPT ![k].pc = "post", ![k].version = r]
    /\ UNCHANGED <<not_version, h_posts>>

\* lines 55-71: the statements are posted; the response is ok or not
BatchPost(k) ==
    /\ h_calls[k].pc = "post"
    /\ h_posts' = Append(h_posts, k)
    /\ \E ok \in BOOLEAN :
        h_calls' = [h_calls EXCEPT
            ![k].pc = IF ok THEN "returned" ELSE "raised",
            ![k].ret = IF ok THEN PyList(<<>>) ELSE Raise("ClientHttpError")]
    /\ UNCHANGED <<not_version, h_version, h_fetches>>

NextVersion ==
    \/ \E k \in HttpCalls : VersionCheck(k)
    \/ \E k \in HttpCalls : VersionFetched(k)
    \/ \E k \in HttpCalls : BatchPost(k)

SpecVersion == InitVersion /\ [][NextVersion]_vars

----------------------------------------------------------------------------
\* Properties

IsExecute(i) == tasks[i].req.type = "execute"

\* the execute of task i has been handed to its connection
Started(i) ==
    \/ tasks[i].pc \in {"executing", "send", "done"}
    \/ tasks[i].pc = "raised" /\ tasks[i].conn # 0

\* the handler of task i has left its connection
Finished(i) == tasks[i].pc \in {"send", "done", "raised"}

Executing(c) == {i \in DOMAIN tasks : tasks[i].pc = "executing" /\ tasks[i].conn = c}

\* C1: the executes of one stream id are applied in receipt order: an
\* execute has started only if every execute received earlier for the same
\* stream id has finished.
C1_ExecuteInReceiptOrder ==
    \A i, j \in DOMAIN tasks :
        (/\ i < j
         /\ IsExecute(i) /\ IsExecute(j)
         /\ tasks[i].req.stream_id = tasks[j].req.stream_id
         /\ Started(j))
        => Finished(i)

\* two executes of one stream have both run and been answered
C1_Witness ==
    \E i, j \in DOMAIN tasks :
        /\ i < j
        /\ IsExecute(i) /\ IsExecute(j)
        /\ tasks[i].conn = tasks[j].conn
        /\ tasks[i].pc = "done" /\ tasks[j].pc = "done"

\* C2: at most one execute runs against a connection at any time, in the
\* server with the per-stream lock and in the server without it.
C2_AtMostOneExecute ==
    \A c \in DOMAIN conns : Cardinality(Executing(c)) <= 1

\* the server without a lock runs the second execute of a connection
C2_Witness ==
    /\ variant = "test"
    /\ \E i, j \in DOMAIN tasks :
        /\ i < j
        /\ IsExecute(i) /\ tasks[i].pc = "done"
        /\ tasks[j].pc = "executing" /\ tasks[j].conn = tasks[i].conn

\* C3: a connection is never being closed, nor closed, while an execute
\* runs on it, and the hrana server holds the stream's lock while it closes.
C3_CloseAfterExecute ==
    /\ \A i \in DOMAIN tasks :
        tasks[i].pc = "closing" =>
            /\ Executing(tasks[i].conn) = {}
            /\ variant = "hrana" => conns[tasks[i].conn].lock
    /\ \A c \in DOMAIN conns :
        conns[c].state = "closed" => Executing(c) = {}

\* close_stream closes a connection on which an execute has run before
C3_Witness ==
    /\ variant = "hrana"
    /\ \E i, j \in DOMAIN tasks :
        /\ i < j
        /\ IsExecute(i) /\ tasks[i].pc = "done"
        /\ tasks[j].pc = "closing" /\ tasks[j].conn = tasks[i].conn

\* C4: an engine error in an execute does not end the session and leaves
\* the registry and its connections as they were.
C4_EngineErrorContained ==
    [][\A i \in DOMAIN tasks :
        (/\ tasks[i].pc = "executing"
         /\ tasks[i].req.stmt.sql = "invalid"
         /\ tasks'[i].pc # "executing")
        => /\ pc' # "done"
           /\ transport' = transport
           /\ streams' = streams
           /\ \A s \in DOMAIN streams : conns'[streams[s]].state = "open"]_vars

\* C5: an execute on an id that is not registered fails that request only:
\* the session does not end with it.
C5_UnknownStreamContained ==
    [][(/\ Len(tasks') = Len(tasks) + 1
        /\ tasks'[Len(tasks')].req.type = "execute"
        /\ tasks'[Len(tasks')].req.stream_id \notin DOMAIN streams)
       => /\ pc' # "done"
          /\ transport' = transport]_vars

\* C6: while an open_stream for an id that is already registered is being
\* handled, no connection is acquired and the registry does not change.
C6_DuplicateOpenRejected ==
    [][\A i \in DOMAIN tasks :
        (/\ tasks[i].pc = "connect"
         /\ tasks[i].req.stream_id \in DOMAIN streams)
        => /\ streams' = streams
           /\ Len(conns') = Len(conns)]_vars

\* C7: nothing is sent and nothing dispatched before a hello has been
\* received as the first frame, so a session whose handshake failed has
\* sent nothing.
C7_SilentBeforeHello ==
    (frames = <<>> \/ frames[1].type # "hello") => sent = <<>> /\ tasks = <<>>

\* the session ended on a request sent as the first frame
C7_Witness ==
    /\ pc = "done"
    /\ Len(frames) = 1
    /\ frames[1].type = "request"

\* C8: the responses sent with a request id never outnumber the requests
\* received with it, so every response answers a request not yet answered
\* and no request is answered twice.
C8_ResponsesCorrelated ==
    /\ \A r \in RequestIds : Answered(r) <= Received(r)
    /\ \A j \in DOMAIN sent : IsResponse(sent[j]) => sent[j].request_id \in RequestIds

\* a request id was used again after its response, and answered again
C8_Witness ==
    \E r \in RequestIds : Answered(r) = 2

\* C9: when the session has ended, every registered stream's connection is
\* closed.
C9_StreamsClosedAtEnd ==
    pc = "done" =>
        \A s \in DOMAIN streams : conns[streams[s]].state = "closed"

\* C10: no connection is closed twice, and when the session has ended
\* every connection it acquired has been closed once.
C10_ClosedExactlyOnce ==
    /\ \A c \in DOMAIN conns : conns[c].closes <= 1
    /\ pc = "done" => \A c \in DOMAIN conns : conns[c].closes = 1

\* the connections opened under stream id s and not yet closed
Unreleased(s) == {c \in DOMAIN conns : conns[c].sid = s /\ conns[c].state = "open"}

\* C11: for each stream id at most one connection opened under it is
\* unreleased.
C11_OneLiveConnectionPerId ==
    \A s \in StreamIds : Cardinality(Unreleased(s)) <= 1

\* the task the step has just added for a request frame, if any
Dispatched(type) ==
    /\ Len(tasks') = Len(tasks) + 1
    /\ tasks'[Len(tasks')].req.type = type

\* C12: close_stream leaves its id unregistered; on an id that is not
\* registered it changes neither the registry nor any connection, does not
\* fail, and is answered by an ordinary response_ok.
C12_CloseAbsentIsNoOp ==
    [][/\ Dispatched("close_stream") =>
            LET t == tasks'[Len(tasks')] IN
            /\ t.req.stream_id \notin DOMAIN streams'
            /\ t.req.stream_id \notin DOMAIN streams =>
                /\ streams' = streams
                /\ conns' = conns
                /\ t.pc = "send"
                /\ pc' # "done"
       /\ \A i \in DOMAIN tasks :
            (/\ tasks[i].req.type = "close_stream"
             /\ tasks[i].conn = 0
             /\ tasks'[i].pc = "done" /\ tasks[i].pc # "done")
            => sent' = Append(sent, [type |-> "response_ok",
                                     request_id |-> tasks[i].request_id,
                                     response |-> "close_stream"])]_vars

\* a stream was closed, and a second close_stream of its id was answered
C12_Witness ==
    \E i, j \in DOMAIN tasks :
        /\ i < j
        /\ tasks[i].req.type = "close_stream" /\ tasks[j].req.type = "close_stream"
        /\ tasks[i].req.stream_id = tasks[j].req.stream_id
        /\ tasks[i].conn # 0 /\ tasks[j].conn = 0
        /\ tasks[j].pc = "done"

Responses == {j \in DOMAIN sent : IsResponse(sent[j])}

\* C13: a frame received after the handshake that is not a request is the
\* last frame of the session: the session has ended, and the responses sent
\* are at most those of the request frames received before it.
C13_UnknownFrameIsFatal ==
    \A k \in DOMAIN frames :
        (k > 1 /\ frames[k].type # "request") =>
            /\ pc = "done"
            /\ k = Len(frames)
            /\ exc \in {"JSONDecodeError", "RuntimeError"}
            /\ Cardinality(Responses) = k - 2

\* the session answered a request and then ended on a frame that is not JSON
C13_Witness ==
    /\ pc = "done"
    /\ Len(frames) >= 3
    /\ frames[Len(frames)].type = "malformed"
    /\ Responses # {}

\* C14: while an execute runs in the worker pool the loop is reading the
\* next frame, so that an execute on another stream can start.
C14_ReadsWhileExecuting ==
    \A i \in DOMAIN tasks : tasks[i].pc = "executing" => ReadyToRecv

CodecEnded == cv_pc \in {"raised", "bound"}

\* C15: a value of SQLite taken through value_from_sqlite, the JSON frame
\* and value_to_sqlite comes back as it was.
C15_CodecRoundTrip ==
    (cv_flow = "result" /\ CodecEnded) =>
        /\ cv_pc = "bound"
        /\ SameValue(cv_out, cv_in)

\* C16: a blob is sent under the key base64 as text without "=", and base64
\* text without its padding is decoded to the blob it stands for.
C16_BlobBase64Unpadded ==
    /\ (cv_flow = "result" /\ cv_in.py = "bytes" /\ cv_pc = "send") =>
        /\ cv_wire.type = "blob"
        /\ "base64" \in DOMAIN cv_wire
        /\ cv_wire.base64.py = "str"
        /\ \A k \in DOMAIN cv_wire.base64.v : cv_wire.base64.v[k] # Pad
    /\ (cv_flow = "arg" /\ cv_in.py = "bytes" /\ CodecEnded) =>
        /\ cv_pc = "bound"
        /\ SameValue(cv_out, cv_in)

\* an optional "-" and then digits only, at least one
IsDecimal(cs) ==
    LET ds == IF cs # <<>> /\ cs[1] = 45 THEN Tail(cs) ELSE cs
    IN ds # <<>> /\ \A k \in DOMAIN ds : IsDigit(ds[k])

\* C17: an integer is sent with its value as a decimal string, and decoding
\* the string gives the integer back, over the whole signed range.
C17_IntegerAsDecimalString ==
    cv_in.py = "int" =>
        /\ cv_pc # "raised"
        /\ cv_pc \in {"send", "to_sqlite"} =>
            /\ cv_wire.type = "integer"
            /\ cv_wire.value.py = "str"
            /\ IsDecimal(cv_wire.value.v)
        /\ cv_pc = "bound" => SameValue(cv_out, cv_in)

\* the smallest integer has made the round trip
C17_Witness ==
    /\ cv_flow = "result"
    /\ cv_pc = "bound"
    /\ cv_in = PyInt(MinInt)
    /\ cv_out = PyInt(MinInt)

\* C18: an execute with an argument that is no value fails that request
\* only: the session does not end, and the statement is not handed to the
\* engine.
C18_BadArgumentContained ==
    [][\A i \in DOMAIN tasks :
        (/\ tasks[i].pc = "executing"
         /\ params_error(tasks[i].req.stmt) # "ok"
         /\ tasks'[i].pc # "executing")
        => /\ pc' # "done"
           /\ transport' = transport
           /\ conns'[tasks[i].conn].runs = conns[tasks[i].conn].runs]_vars

\* C20: once a data-modification execute has returned, its connection has
\* no open transaction, so that the change is committed and other streams
\* see it.
C20_Autocommit ==
    \A i \in DOMAIN tasks :
        (/\ IsExecute(i)
         /\ IsDML(tasks[i].req.stmt)
         /\ tasks[i].pc \in {"send", "done"})
        => ~conns[tasks[i].conn].in_txn

\* C19: for a statement with output columns the cursor is read to its end
\* whatever want_rows is; in the result execute_stmt returns, and in the
\* response sent with it, cols names every column, and rows is empty when
\* want_rows is false and otherwise holds every row of the cursor in order,
\* one encoded value per column.
C19_RowsOnlyWhenWanted ==
    (x_pc \in {"returned", "sent"} /\ x_cursor.description # None) =>
        /\ x_pos = Len(x_cursor.rows)
        /\ Len(x_result.cols) = Len(x_cursor.description.v)
        /\ \A k \in DOMAIN x_result.cols :
                x_result.cols[k] = [name |-> x_cursor.description.v[k]]
        /\ ~x_want => x_result.rows = <<>>
        /\ x_want =>
            /\ Len(x_result.rows) = Len(x_cursor.rows)
            /\ \A r \in DOMAIN x_result.rows :
                /\ Len(x_result.rows[r]) = Len(x_result.cols)
                /\ \A k \in DOMAIN x_result.rows[r] :
                    x_result.rows[r][k] = value_from_sqlite(x_cursor.rows[r][k])

\* the response to a query that yielded two rows of two columns, a blob in
\* the first, is sent without rows
C19_Witness ==
    /\ x_pc = "sent"
    /\ ~x_want
    /\ Len(x_cursor.rows) = 2
    /\ Len(x_result.cols) = 2
    /\ x_cursor.rows[1][2].py = "bytes"
    /\ x_pos = 2
    /\ x_result.rows = <<>>

\* C21: when releasing the connection fails in a close_stream, the session
\* does not end with it: the request is answered with an error, its stream
\* id is no longer registered, and later requests are processed.
C21_ReleaseFailureContained ==
    [][\A i \in DOMAIN tasks :
        (/\ tasks[i].pc = "closing"
         /\ tasks'[i].pc = "raised")
        => /\ pc' # "done"
           /\ transport' = transport
           /\ tasks[i].req.stream_id \notin DOMAIN streams']_vars

\* C22: when a session of the test server has ended, on whatever path, the
\* temporary database file made for it has been removed.
C22_TempFileRemoved ==
    (variant = "test" /\ pc = "done") => db_file = "removed"

ConnsOf(k) == {c \in DOMAIN g_conns : g_conns[c].session = k}

\* C24: a request handled in one session leaves the registry of the other
\* session and the connections the other session acquired as they were;
\* every entry of a session's registry is a connection that session
\* acquired, so that one stream id in two sessions denotes two connections.
C24_RegistryPerSession ==
    [][/\ \A j \in Sessions \ {g_req'.session} :
            /\ g_streams'[j] = g_streams[j]
            /\ \A c \in ConnsOf(j) : g_conns'[c] = g_conns[c]
       /\ \A k \in Sessions : \A s \in DOMAIN g_streams'[k] :
            g_streams'[k][s] \in {c \in DOMAIN g_conns' : g_conns'[c].session = k}
       /\ \A s \in DOMAIN g_streams'[1] \cap DOMAIN g_streams'[2] :
            g_streams'[1][s] # g_streams'[2][s]]_vars

\* both sessions have stream 1 open; the first has closed its own, the
\* second has then run a statement on its own
C24_Witness ==
    /\ g_req.session = 2 /\ g_req.type = "execute" /\ g_req.stream_id = 1
    /\ 1 \notin DOMAIN g_streams[1]
    /\ 1 \in DOMAIN g_streams[2]
    /\ g_conns[g_streams[2][1]].runs = 1
    /\ g_conns[g_streams[2][1]].state = "open"
    /\ \E c \in ConnsOf(1) : g_conns[c].sid = 1 /\ g_conns[c].state = "closed"

\* the value bound under name in the dict items, or None
Bound(items, name) ==
    IF \E i \in DOMAIN items : items[i][1] = name
    THEN (CHOOSE it \in {items[i] : i \in DOMAIN items} : it[1] = name)[2]
    ELSE None

\* C25: with a mapping as parameters, the statement is run only when every
\* key begins with ':', '@' or '$', and then every key's value is bound
\* under the key without its first character; a key that does not begin
\* with one of them (the empty key too) makes the statement fail unrun.
C25_NamedParamsSigil ==
    q_params.py = "dict" =>
        /\ (\E i \in DOMAIN q_params.v : ~HasSigil(q_params.v[i][1])) =>
                q_pc \notin {"execute", "executed"}
        /\ q_pc \in {"execute", "executed"} =>
                \A i \in DOMAIN q_params.v :
                    Bound(q_sql_params.v, Stripped(q_params.v[i][1])) = q_params.v[i][2]

\* the ResultSet the engine gives for the statement stmt of a caller
ExpectedResult(stmt) == result_set(stmt.sql, raw_stmt(stmt).params)

\* C26: a Client.batch that returns, returns one ResultSet per statement
\* given, the i-th being the result of the i-th statement, for bare
\* strings and for (sql, params) tuples.
C26_BatchOneResultPerStmt ==
    (b_call = "batch" /\ b_pc = "returned") =>
        /\ b_ret.py = "list"
        /\ Len(b_ret.v) = Len(b_stmts)
        /\ \A i \in DOMAIN b_stmts : b_ret.v[i] = ExpectedResult(b_stmts[i])
        /\ b_log = [i \in DOMAIN b_stmts |-> b_stmts[i].sql]

\* a batch of a tuple and a bare string has returned their two results
C26_Witness ==
    /\ b_call = "batch"
    /\ b_pc = "returned"
    /\ Len(b_stmts) = 2
    /\ b_stmts[1].py = "tuple" /\ b_stmts[1].sql = "VALUES (?)"
    /\ b_stmts[2].py = "str" /\ b_stmts[2].sql = "SELECT 42"
    /\ Len(b_ret.v) = 2

\* C27: Client.transaction hands the driver one batch, BEGIN, the
\* statements in order, COMMIT, which the connection runs in that order;
\* when it returns it has run them all and returns one ResultSet per
\* statement given, the i-th being the result of the i-th statement.
C27_TransactionBeginCommit ==
    (b_call = "transaction" /\ b_pc # "call") =>
        LET all == <<"BEGIN">> \o [i \in DOMAIN b_stmts |-> b_stmts[i].sql] \o <<"COMMIT">>
        IN /\ [i \in DOMAIN b_raw |-> b_raw[i].sql] = all
           /\ Len(b_log) <= Len(all)
           /\ b_log = SubSeq(all, 1, Len(b_log))
           /\ b_pc = "returned" =>
                /\ b_log = all
                /\ b_ret.py = "list"
                /\ Len(b_ret.v) = Len(b_stmts)
                /\ \A i \in DOMAIN b_stmts : b_ret.v[i] = ExpectedResult(b_stmts[i])

\* a transaction of two different queries has returned
C27_Witness ==
    /\ b_call = "transaction"
    /\ b_pc = "returned"
    /\ Len(b_stmts) = 2
    /\ b_stmts[1].sql = "SELECT 42"
    /\ b_stmts[2].sql = "SELECT 'two'"
    /\ b_log = <<"BEGIN", "SELECT 42", "SELECT 'two'", "COMMIT">>

\* C28: the HTTP client encodes a blob as an object whose base64 text has
\* no '=' in it, and decoding that object gives the blob back; the other
\* values come back as they were too.
C28_HttpBlobRoundTrip ==
    /\ (cv_pc \in {"decode", "done"} /\ cv_in.py = "bytes") =>
            /\ DOMAIN cv_wire = {"py", "base64"}
            /\ \A i \in DOMAIN cv_wire.base64.v : cv_wire.base64.v[i] # Pad
            /\ Len(cv_wire.base64.v) = (Len(cv_in.v) * 4 + 2) \div 3
    /\ cv_pc = "done" => cv_out = cv_in

\* a blob of four bytes, whose base64 text has lost two '=', is back
C28_Witness ==
    /\ cv_pc = "done"
    /\ cv_in = PyBytes(<<255, 77, 0, 255>>)
    /\ Len(cv_wire.base64.v) = 6
    /\ cv_out = cv_in

\* C29: the affected_row_count of an execute result is never negative: it
\* is the cursor's rowcount when that is zero or more, and 0 when the
\* engine reports a negative count, in both servers.
C29_AffectedRowCountClamped ==
    x_pc \in {"returned", "sent"} =>
        /\ x_result.affected_row_count >= 0
        /\ x_result.affected_row_count =
                IF x_cursor.rowcount >= 0 THEN x_cursor.rowcount ELSE 0

\* C30: an execute of a statement without output columns succeeds, with
\* cols and rows both the empty list, in both servers.
C30_NoColumnsEmptyResult ==
    (x_cursor.description = None /\ x_pc # "cols") =>
        /\ x_pc \in {"rows", "returned", "sent"}
        /\ x_pc \in {"returned", "sent"} =>
                /\ x_result.cols = <<>>
                /\ x_result.rows = <<>>

\* C31: requests are handled strictly one at a time: a request frame is
\* read only when every earlier request has been answered, so the k-th
\* response sent answers the k-th request received.
C31_OneRequestAtATime ==
    /\ \A i \in DOMAIN tasks : i < Len(tasks) => tasks[i].pc = "done"
    /\ \A j \in DOMAIN sent :
        j > 1 => /\ IsResponse(sent[j])
                 /\ j - 1 \in DOMAIN tasks
                 /\ tasks[j - 1].pc = "done"
                 /\ sent[j].request_id = tasks[j - 1].request_id
                 /\ sent[j].response = tasks[j - 1].req.type

\* three requests with alternating request ids were answered in their order
C31_Witness ==
    /\ Len(tasks) = 3
    /\ Len(sent) = 4
    /\ tasks[1].request_id # tasks[2].request_id
    /\ tasks[2].request_id # tasks[3].request_id
    /\ \A i \in DOMAIN tasks : tasks[i].pc = "done"

\* C32: under fair scheduling every request received is in the end answered
\* by a response_ok that echoes its request id, unless its handler raised
\* or the transport was closed.
C32_EventuallyAnswered ==
    \A i \in 1..MaxRequests :
        (i \in DOMAIN tasks)
        ~> \/ /\ i \in DOMAIN tasks
              /\ tasks[i].pc = "done"
              /\ i + 1 \in DOMAIN sent
              /\ sent[i + 1].type = "response_ok"
              /\ sent[i + 1].request_id = tasks[i].request_id
           \/ exc # "none"
           \/ transport = "closed"

\* the transport is open and the third request has its response
C32_Witness ==
    /\ transport = "open"
    /\ Len(tasks) = 3
    /\ tasks[3].pc = "done"
    /\ tasks[3].req.type = "execute"
    /\ Len(sent) = 4
    /\ sent[4].request_id = tasks[3].request_id

\* C33: in the hrana server a stream's lock is held only while an execute
\* or a close_stream that took it is on the connection: it is given back
\* when the operation returns and when it raises, so a handler that comes
\* to take the lock finds it free.
C33_LockReleased ==
    /\ \A c \in DOMAIN conns :
        conns[c].lock =>
            /\ variant = "hrana"
            /\ \E i \in DOMAIN tasks :
                tasks[i].conn = c /\ tasks[i].pc \in {"executing", "closing"}
    /\ \A i \in DOMAIN tasks :
        tasks[i].pc = "acquire" => LockFree(tasks[i].conn)

\* an execute was answered, the next execute on the same stream raised, and
\* the lock of their connection is free
C33_Witness ==
    /\ variant = "hrana"
    /\ \E i, j \in DOMAIN tasks :
        /\ i < j
        /\ IsExecute(i) /\ tasks[i].pc = "done"
        /\ IsExecute(j) /\ tasks[j].pc = "raised"
        /\ tasks[j].conn = tasks[i].conn
        /\ exc = "OperationalError"
        /\ ~conns[tasks[j].conn].lock

\* the entry of the registry under stream id s, or 0
Entry(reg, s) == IF s \in DOMAIN reg THEN reg[s] ELSE 0

\* C34: the registry changes only at the id of an open_stream that gets its
\* connection or of a close_stream that is received: every other entry, and
\* every entry in a step of an execute, stays as it was.
C34_RegistryFrame ==
    [][\A s \in StreamIds :
        Entry(streams', s) # Entry(streams, s) =>
            \/ \E i \in DOMAIN tasks :
                /\ tasks[i].req.type = "open_stream"
                /\ tasks[i].req.stream_id = s
                /\ tasks[i].pc = "connect" /\ tasks'[i].pc = "send"
                /\ Entry(streams', s) = tasks'[i].conn
            \/ /\ Dispatched("close_stream")
               /\ tasks'[Len(tasks')].req.stream_id = s
               /\ Entry(streams', s) = 0]_vars

\* two streams are open, an execute on the first raised and the session
\* ended: both are still registered with their connections
C34_Witness ==
    /\ DOMAIN streams = {1, 2}
    /\ streams[1] # streams[2]
    /\ \E i \in DOMAIN tasks :
        /\ IsExecute(i) /\ tasks[i].pc = "raised"
        /\ tasks[i].conn = streams[tasks[i].req.stream_id]
    /\ pc = "done"

\* C36: a batch stops at the first statement the engine rejects: it raises
\* ClientResponseError with the engine's message and returns no ResultSet,
\* the statements before it have run and none after it, and a batch that
\* returns had no statement rejected; a failing transaction has not run
\* its COMMIT.
C36_BatchStopsAtFirstError ==
    /\ (b_pc = "raised" /\ b_ret.v = "ClientResponseError") =>
        LET k == Len(b_log) IN
        /\ k \in DOMAIN b_raw
        /\ b_log = [i \in 1..k |-> b_raw[i].sql]
        /\ Len(b_results) = k - 1
        /\ engine_error(b_raw[k].sql, b_raw[k].params, b_txn) # "ok"
        /\ b_ret.message = engine_error(b_raw[k].sql, b_raw[k].params, b_txn)
        /\ b_call = "transaction" => \A i \in DOMAIN b_log : b_log[i] # "COMMIT"
    /\ b_pc = "returned" => Len(b_log) = Len(b_raw) /\ Len(b_results) = Len(b_raw)
    /\ Len(b_log) <= Len(b_results) + 1

\* a transaction whose second statement names a column that is not there
\* raised after BEGIN and the first statement
C36_Witness ==
    /\ b_call = "transaction"
    /\ b_pc = "raised"
    /\ b_ret.v = "ClientResponseError"
    /\ b_ret.message = "no such column: foo"
    /\ b_log = <<"BEGIN", "SELECT 42", "SELECT foo">>
    /\ b_txn

\* C35: two batch calls issued together on one file-URL client never
\* interleave: the statements the connection is given are all those of one
\* call, then all those of the other, and a call runs on the connection
\* only while it holds the connection lock.
C35_BatchesNeverInterleave ==
    /\ \A i, j, l \in DOMAIN d_log :
        (i < j /\ j < l /\ d_log[i].call = d_log[l].call) => d_log[j].call = d_log[i].call
    /\ \A k \in DOMAIN d_calls :
        d_calls[k].pc \in {"submitted", "loop", "finished"} => d_lock = k

\* both calls ran two statements on the connection
C35_Witness ==
    /\ Len(d_log) = 4
    /\ d_log[1].call = d_log[2].call
    /\ d_log[3].call = d_log[4].call
    /\ d_log[1].call # d_log[3].call

\* C37: the first statement of every batch runs on a connection with no
\* transaction open, whatever the batches before it left behind.
C37_NoTransactionCarriedOver ==
    \A i \in DOMAIN d_log :
        (\A j \in 1..(i - 1) : d_log[j].call # d_log[i].call) => ~d_log[i].txn

\* a batch failed after its BEGIN, and the COMMIT of the next batch found
\* no transaction
C37_Witness ==
    /\ Len(d_log) = 3
    /\ d_log[1].sql = "BEGIN"
    /\ d_log[2].sql = "SELECT foo"
    /\ d_log[2].call = d_log[1].call
    /\ d_log[3].call # d_log[1].call
    /\ d_log[3].sql = "COMMIT"
    /\ ~d_log[3].txn
    /\ d_calls[d_log[3].call].ret = client_response_error("cannot commit - no transaction is active")

\* C38: close() never closes the connection while a batch is executing on
\* it in the executor.
C38_CloseWaitsForBatch ==
    [][(d_conn.open /\ ~d_conn'.open) =>
            \A k \in DOMAIN d_calls : d_calls[k].pc \notin {"submitted", "loop"}]_vars

\* C39: the version endpoint is fetched successfully at most once; once a
\* fetch has succeeded the cached version never changes and no further
\* fetch is made; a failed fetch leaves the cache as it was and fails the
\* batch with ClientHttpError without posting its statements.
C39_VersionFetchedOnce ==
    /\ [](Len(h_fetches) <= 1)
    /\ [][h_version # None => (h_version' = h_version /\ h_fetches' = h_fetches)]_vars
    /\ [][\A k \in DOMAIN h_calls :
            (h_calls[k].pc = "fetching" /\ h_calls'[k].pc = "raised") =>
                /\ h_version' = h_version
                /\ h_calls'[k].ret = Raise("ClientHttpError")
                /\ h_posts' = h_posts]_vars
    /\ [](\A k \in DOMAIN h_calls :
            (h_calls[k].pc = "raised" /\ h_calls[k].version = None) =>
                \A i \in DOMAIN h_posts : h_posts[i] # k)

====
